---- MODULE Spec2Model ----
(***************************************************************************)
(* Model of OpenMedSpeciesDetector (batch_processing_example.py):          *)
(* predict_single, the thread-pool fan-out/fan-in of predict_batch, and    *)
(* the flattening of process_file.                                         *)
(*                                                                         *)
(* Python values are modelled as tagged records.  A decoded JSON value is  *)
(* [kind, items]: kind is "list", "dict" or "int"; items is what           *)
(* iterating the value yields (the elements of a list, the keys of a       *)
(* dict).  An element is [type, obj]: a JSON object ("dict", obj its       *)
(* key/value record) or a string ("str").  Positions are zero-based as in  *)
(* the source; texts and results are sequences, so position i is stored at *)
(* sequence index i + 1.                                                   *)
(***************************************************************************)
EXTENDS Integers, Sequences, FiniteSets, TLC

VARIABLES
    texts,        \* the list handed to predict_batch (the text column of the file)
    columns,      \* df.columns of the file read by process_file
    text_column,  \* the text_column argument of process_file
    caller,       \* "none", "batch" (predict_batch called directly) or "file"
    max_workers,  \* the max_workers argument of predict_batch
    pc,           \* position of the calling thread
    wstate,       \* per position: "new", "queued", "running", "done"
    future,       \* per position: the outcome stored in the future
    env,          \* per position: what the collaborators did in that worker
    calls,        \* per position: number of invoke_endpoint calls made
    collected,    \* positions already yielded by as_completed
    order,        \* the positions in the order as_completed yielded them
    results,      \* the results list of predict_batch
    table,        \* the rows of the DataFrame returned by process_file
    error         \* the exception the top-level call raised, or NoError

vars == <<texts, columns, text_column, caller, max_workers, pc, wstate,
          future, env, calls, collected, order, results, table, error>>

-----------------------------------------------------------------------------
(* Bounds *)

MaxN == 2
MaxWorkers == 2

(* max_workers: int = 5 *)
DefaultMaxWorkers == 5

-----------------------------------------------------------------------------
(* Inputs *)

Texts == {"x", "y"}

ColumnNames == {"text", "notes"}

(* df.columns of the files read. *)
FileColumns == {{"id", "text"}, {"id", "notes"}}

RECURSIVE SeqsUpTo(_, _)
SeqsUpTo(S, n) ==
    IF n = 0 THEN {<<>>}
    ELSE LET shorter == SeqsUpTo(S, n - 1)
         IN  shorter \cup {Append(s, e) : s \in {t \in shorter : Len(t) = n - 1}, e \in S}

TextLists == SeqsUpTo(Texts, MaxN)

Positions == 0 .. (Len(texts) - 1)

(* Entity objects as the endpoint returns them, and elements that are not   *)
(* well-formed entities.                                                    *)
EColi == [type |-> "dict", obj |-> [word |-> "E. coli", score |-> 95, start |-> 0, end |-> 7]]
Mrsa == [type |-> "dict", obj |-> [word |-> "MRSA", score |-> 80, start |-> 9, end |-> 13]]
NoWord == [type |-> "dict", obj |-> [label |-> "E. coli", score |-> 95]]
KeyStr == [type |-> "str", obj |-> [chars |-> "error"]]

EmptyList == [kind |-> "list", items |-> <<>>]

(* Values json.loads can return for a response body. *)
Responses ==
    { EmptyList,
      [kind |-> "list", items |-> <<EColi>>],
      [kind |-> "list", items |-> <<Mrsa, EColi, Mrsa>>],
      [kind |-> "list", items |-> <<EColi, NoWord>>],
      [kind |-> "dict", items |-> <<KeyStr>>],
      [kind |-> "int", items |-> <<>>] }

(* Where the body of predict_single's try block raises, if anywhere. *)
Steps == {"ok", "dumps", "invoke", "read", "decode"}

NoError == [type |-> "none", arg |-> ""]
NoFuture == [raised |-> FALSE, value |-> EmptyList, msg |-> "pending"]
NoEnv == [step |-> "none", resp |-> EmptyList, fault |-> FALSE]

-----------------------------------------------------------------------------
(* predict_single *)

(* Python's None, the value of a function that ends without a return. *)
PyNone == [kind |-> "NoneType", items |-> <<>>]

(* Variant: the except branch reports the error but has no return. *)
PredictSingleNoReturn(step, resp) ==
    IF step = "ok" THEN resp ELSE PyNone

(* Variant: the decoded value is validated and dropped unless it is a list. *)
PredictSingleValidating(step, resp) ==
    IF step = "ok" /\ resp.kind = "list" THEN resp ELSE EmptyList

(* The try block returns the decoded value; any exception gives []. *)
PredictSingle(step, resp) ==
    IF step = "ok" THEN resp ELSE EmptyList

(* Variant: a failed invoke_endpoint call is tried a second time. *)
InvokeCallsRetrying(step) ==
    IF step = "dumps" THEN 0 ELSE IF step = "invoke" THEN 2 ELSE 1

(* invoke_endpoint is reached unless json.dumps raised before it. *)
InvokeCalls(step) ==
    IF step = "dumps" THEN 0 ELSE 1

-----------------------------------------------------------------------------
(* Python built-ins used by predict_batch and process_file *)

(* len(v) raises TypeError for a value without a length. *)
HasLen(v) == v.kind \in {"list", "dict"}

PyLen(v) == Len(v.items)

LenErrorMsg(v) == "object of type '" \o v.kind \o "' has no len()"

(* e[k] raises TypeError for a string e and KeyError for a missing key. *)
CanSubscript(e, k) == e.type = "dict" /\ k \in DOMAIN e.obj

-----------------------------------------------------------------------------
(* predict_batch *)

Success == <<"success">>

(* f'error: {str(e)}' *)
ErrorStatus(msg) == <<"error: ", msg>>

IsErrorStatus(status) == status[1] = "error: "

(* Variant: species_count is taken from the wrong variable. *)
SuccessResultMiscounted(i, text, entities) ==
    [index |-> i, text |-> text, entities |-> entities,
     species_count |-> i, status |-> Success]

(* The dict appended in the try branch. *)
SuccessResult(i, text, entities) ==
    [index |-> i, text |-> text, entities |-> entities,
     species_count |-> PyLen(entities), status |-> Success]

(* Variant: the except branch reuses the entities variable, which still    *)
(* holds the list of an earlier iteration.                                  *)
ErrorResultStaleEntities(i, text, msg) ==
    [index |-> i, text |-> text, entities |-> [kind |-> "list", items |-> <<EColi>>],
     species_count |-> 0, status |-> ErrorStatus(msg)]

(* Variant: the except branch forgets to tag the status. *)
ErrorResultUntagged(i, text, msg) ==
    [index |-> i, text |-> text, entities |-> EmptyList,
     species_count |-> 0, status |-> Success]

(* The dict appended in the except branch. *)
ErrorResult(i, text, msg) ==
    [index |-> i, text |-> text, entities |-> EmptyList,
     species_count |-> 0, status |-> ErrorStatus(msg)]

(* Variant: an empty entity list is treated as a failure ("if entities"). *)
CollectOutcomeEmptyIsError(i, text, fut) ==
    IF fut.raised THEN ErrorResult(i, text, fut.msg)
    ELSE IF ~HasLen(fut.value) THEN ErrorResult(i, text, LenErrorMsg(fut.value))
    ELSE IF PyLen(fut.value) = 0 THEN ErrorResult(i, text, "no entities")
    ELSE SuccessResult(i, text, fut.value)

(* The body of the as_completed loop for one future: future.result() and    *)
(* len(entities) are both inside the try, so either one raising selects the *)
(* except branch.                                                           *)
CollectOutcome(i, text, fut) ==
    IF fut.raised THEN ErrorResult(i, text, fut.msg)
    ELSE IF ~HasLen(fut.value) THEN ErrorResult(i, text, LenErrorMsg(fut.value))
    ELSE SuccessResult(i, text, fut.value)

(* Variant: the comparison of the sort is reversed (descending order). *)
RECURSIVE InsertDescending(_, _)
InsertDescending(sorted, r) ==
    IF sorted = <<>> THEN <<r>>
    ELSE IF sorted[Len(sorted)].index >= r.index THEN Append(sorted, r)
    ELSE Append(InsertDescending(SubSeq(sorted, 1, Len(sorted) - 1), r), sorted[Len(sorted)])

(* results.sort(key=lambda x: x['index']): a stable sort by index. *)
RECURSIVE InsertByIndex(_, _)
InsertByIndex(sorted, r) ==
    IF sorted = <<>> THEN <<r>>
    ELSE IF sorted[Len(sorted)].index <= r.index THEN Append(sorted, r)
    ELSE Append(InsertByIndex(SubSeq(sorted, 1, Len(sorted) - 1), r), sorted[Len(sorted)])

(* Variant: the sort loop puts each element in front instead of inserting  *)
(* it by index.                                                             *)
RECURSIVE SortFromPrepending(_, _)
SortFromPrepending(sorted, rest) ==
    IF rest = <<>> THEN sorted
    ELSE SortFromPrepending(<<Head(rest)>> \o sorted, Tail(rest))

RECURSIVE SortFrom(_, _)
SortFrom(sorted, rest) ==
    IF rest = <<>> THEN sorted
    ELSE SortFrom(InsertByIndex(sorted, Head(rest)), Tail(rest))

(* Variant: the results are returned in completion order, unsorted. *)
SortOmitted(rs) == rs

SortByIndex(rs) == SortFrom(<<>>, rs)

(* What the worker leaves in its future. *)
FutureOf(e) ==
    IF e.fault THEN [raised |-> TRUE, value |-> EmptyList, msg |-> "worker fault"]
    ELSE [raised |-> FALSE, value |-> PredictSingle(e.step, e.resp), msg |-> ""]

(* What the collaborators can do during one worker run: the endpoint       *)
(* answers, a step of predict_single raises, or the worker itself faults.   *)
Envs ==
    { [step |-> "ok", resp |-> r, fault |-> FALSE] : r \in Responses }
    \cup
    { [step |-> s, resp |-> EmptyList, fault |-> FALSE] : s \in Steps \ {"ok"} }
    \cup
    { [step |-> s, resp |-> EmptyList, fault |-> TRUE] : s \in {"ok", "invoke"} }

Running == {i \in Positions : wstate[i] = "running"}

Queued == {i \in Positions : wstate[i] = "queued"}

-----------------------------------------------------------------------------
(* process_file *)

EntityKeys == <<"word", "score", "start", "end">>

(* The dict appended to processed_data for one entity of one result. *)
Row(result, entity) ==
    [original_index |-> result.index,
     original_text |-> result.text,
     species |-> entity.obj.word,
     confidence |-> entity.obj.score,
     start_position |-> entity.obj.start,
     end_position |-> entity.obj.end,
     status |-> result.status]

RowOk(entity) == \A k \in 1 .. Len(EntityKeys) : CanSubscript(entity, EntityKeys[k])

(* Variant: the rows of each result are put in front of the rows gathered  *)
(* so far.                                                                  *)
RECURSIVE VisitedPrepending(_)
VisitedPrepending(rs) ==
    IF rs = <<>> THEN <<>>
    ELSE VisitedPrepending(Tail(rs))
         \o [k \in 1 .. Len(Head(rs).entities.items) |->
                [result |-> Head(rs), entity |-> Head(rs).entities.items[k]]]

(* Variant: only the first entity of each result is visited. *)
RECURSIVE VisitedFirstOnly(_)
VisitedFirstOnly(rs) ==
    IF rs = <<>> THEN <<>>
    ELSE (IF Len(Head(rs).entities.items) = 0 THEN <<>>
          ELSE <<[result |-> Head(rs), entity |-> Head(rs).entities.items[1]]>>)
         \o VisitedFirstOnly(Tail(rs))

(* All elements the nested loops visit, in visiting order. *)
RECURSIVE Visited(_)
Visited(rs) ==
    IF rs = <<>> THEN <<>>
    ELSE [k \in 1 .. Len(Head(rs).entities.items) |->
             [result |-> Head(rs), entity |-> Head(rs).entities.items[k]]]
         \o Visited(Tail(rs))

FlattenOk(rs) == \A k \in 1 .. Len(Visited(rs)) : RowOk(Visited(rs)[k].entity)

FlattenRows(rs) ==
    [k \in 1 .. Len(Visited(rs)) |-> Row(Visited(rs)[k].result, Visited(rs)[k].entity)]

(* The exception the first bad element raises. *)
FlattenError(rs) ==
    LET v == Visited(rs)
        bad == CHOOSE k \in 1 .. Len(v) :
                   /\ ~RowOk(v[k].entity)
                   /\ \A j \in 1 .. (k - 1) : RowOk(v[j].entity)
        e == v[bad].entity
        key == CHOOSE n \in 1 .. Len(EntityKeys) :
                   /\ ~CanSubscript(e, EntityKeys[n])
                   /\ \A m \in 1 .. (n - 1) : CanSubscript(e, EntityKeys[m])
    IN  IF e.type = "dict" THEN [type |-> "KeyError", arg |-> EntityKeys[key]]
        ELSE [type |-> "TypeError", arg |-> "string indices must be integers"]

(* The columns of the table the claims name. *)
OutputColumns ==
    {"original_index", "original_text", "species", "confidence",
     "start_position", "end_position", "status"}

(* pd.DataFrame(processed_data).columns: the keys of the row dicts; a      *)
(* DataFrame built from an empty list has no columns.                       *)
DataFrameColumns(rows) ==
    IF rows = <<>> THEN {} ELSE UNION {DOMAIN rows[k] : k \in 1 .. Len(rows)}

(* Variant: the column check is left out. *)
ColumnCheckOmitted(cols, col) == FALSE

(* if text_column not in df.columns *)
ColumnMissing(cols, col) == col \notin cols

-----------------------------------------------------------------------------
(* State machine *)

Init ==
    /\ texts \in TextLists
    /\ columns = {}
    /\ text_column = "text"
    /\ caller = "none"
    /\ max_workers = DefaultMaxWorkers
    /\ pc = "idle"
    /\ wstate = [i \in Positions |-> "new"]
    /\ future = [i \in Positions |-> NoFuture]
    /\ env = [i \in Positions |-> NoEnv]
    /\ calls = [i \in Positions |-> 0]
    /\ collected = {}
    /\ order = <<>>
    /\ results = <<>>
    /\ table = <<>>
    /\ error = NoError

(* predict_batch(texts, max_workers=mw) called directly. *)
CallPredictBatch(mw) ==
    /\ pc = "idle"
    /\ caller' = "batch"
    /\ max_workers' = mw
    /\ pc' = "submit"
    /\ UNCHANGED <<texts, columns, text_column, wstate, future, env, calls,
                   collected, order, results, table, error>>

(* process_file(file_path, text_column=col) on a file with columns cols,    *)
(* up to the call of predict_batch.                                         *)
CallProcessFile(cols, col) ==
    /\ pc = "idle"
    /\ caller' = "file"
    /\ columns' = cols
    /\ text_column' = col
    /\ IF ColumnMissing(cols, col)
       THEN /\ pc' = "raised"
            /\ error' = [type |-> "ValueError", arg |-> col]
       ELSE /\ pc' = "submit"
            /\ error' = error
    /\ UNCHANGED <<texts, max_workers, wstate, future, env, calls,
                   collected, order, results, table>>

(* executor.submit(self.predict_single, text) for the next position. *)
Submit(i) ==
    /\ pc = "submit"
    /\ wstate[i] = "new"
    /\ \A j \in Positions : j < i => wstate[j] # "new"
    /\ wstate' = [wstate EXCEPT ![i] = "queued"]
    /\ UNCHANGED <<texts, columns, text_column, caller, max_workers, pc,
                   future, env, calls, collected, order, results, table, error>>

(* The dict comprehension is exhausted; the as_completed loop starts. *)
EndSubmit ==
    /\ pc = "submit"
    /\ \A j \in Positions : wstate[j] # "new"
    /\ pc' = "collect"
    /\ UNCHANGED <<texts, columns, text_column, caller, max_workers, wstate,
                   future, env, calls, collected, order, results, table, error>>

(* Variant: the pool keeps one of its max_workers threads back. *)
WorkerStartOffByOne(i) ==
    /\ wstate[i] = "queued"
    /\ \A j \in Queued : i <= j
    /\ Cardinality(Running) < max_workers - 1
    /\ wstate' = [wstate EXCEPT ![i] = "running"]
    /\ UNCHANGED <<texts, columns, text_column, caller, max_workers, pc,
                   future, env, calls, collected, order, results, table, error>>

(* Variant: a thread is started for every work item, whatever the pool     *)
(* size is.                                                                 *)
WorkerStartUnbounded(i) ==
    /\ wstate[i] = "queued"
    /\ \A j \in Queued : i <= j
    /\ wstate' = [wstate EXCEPT ![i] = "running"]
    /\ UNCHANGED <<texts, columns, text_column, caller, max_workers, pc,
                   future, env, calls, collected, order, results, table, error>>

(* A pool thread takes the oldest work item off the queue. *)
WorkerStart(i) ==
    /\ wstate[i] = "queued"
    /\ \A j \in Queued : i <= j
    /\ Cardinality(Running) < max_workers
    /\ wstate' = [wstate EXCEPT ![i] = "running"]
    /\ UNCHANGED <<texts, columns, text_column, caller, max_workers, pc,
                   future, env, calls, collected, order, results, table, error>>

(* Variant: the worker appends its result to the shared list itself. *)
WorkerFinishAppending(i, e) ==
    /\ wstate[i] = "running"
    /\ wstate' = [wstate EXCEPT ![i] = "done"]
    /\ env' = [env EXCEPT ![i] = e]
    /\ calls' = [calls EXCEPT ![i] = @ + InvokeCalls(e.step)]
    /\ future' = [future EXCEPT ![i] = FutureOf(e)]
    /\ results' = Append(results, CollectOutcome(i, texts[i + 1], FutureOf(e)))
    /\ UNCHANGED <<texts, columns, text_column, caller, max_workers, pc,
                   collected, order, table, error>>

(* The worker's predict_single call ends and the future is resolved. *)
WorkerFinish(i, e) ==
    /\ wstate[i] = "running"
    /\ wstate' = [wstate EXCEPT ![i] = "done"]
    /\ env' = [env EXCEPT ![i] = e]
    /\ calls' = [calls EXCEPT ![i] = @ + InvokeCalls(e.step)]
    /\ future' = [future EXCEPT ![i] = FutureOf(e)]
    /\ UNCHANGED <<texts, columns, text_column, caller, max_workers, pc,
                   collected, order, results, table, error>>

(* as_completed yields a finished future; the loop body appends its result. *)
Collect(i) ==
    /\ pc = "collect"
    /\ wstate[i] = "done"
    /\ i \notin collected
    /\ collected' = collected \cup {i}
    /\ order' = Append(order, i)
    /\ results' = Append(results, CollectOutcome(i, texts[i + 1], future[i]))
    /\ UNCHANGED <<texts, columns, text_column, caller, max_workers, pc,
                   wstate, future, env, calls, table, error>>

(* Variant: the list is sorted and returned without waiting for the        *)
(* futures that have not been collected.                                    *)
ReturnBatchEarly ==
    /\ pc = "collect"
    /\ results' = SortByIndex(results)
    /\ pc' = IF caller = "batch" THEN "returned" ELSE "flatten"
    /\ UNCHANGED <<texts, columns, text_column, caller, max_workers, wstate,
                   future, env, calls, collected, order, table, error>>

(* The loop and the with block end; results are sorted and returned. *)
ReturnBatch ==
    /\ pc = "collect"
    /\ collected = Positions
    /\ results' = SortByIndex(results)
    /\ pc' = IF caller = "batch" THEN "returned" ELSE "flatten"
    /\ UNCHANGED <<texts, columns, text_column, caller, max_workers, wstate,
                   future, env, calls, collected, order, table, error>>

(* The nested loops of process_file and pd.DataFrame(processed_data). *)
Flatten ==
    /\ pc = "flatten"
    /\ IF FlattenOk(results)
       THEN /\ table' = FlattenRows(results)
            /\ pc' = "returned"
            /\ error' = error
       ELSE /\ table' = table
            /\ pc' = "raised"
            /\ error' = FlattenError(results)
    /\ UNCHANGED <<texts, columns, text_column, caller, max_workers, wstate,
                   future, env, calls, collected, order, results>>

Next ==
    \/ \E mw \in 1 .. MaxWorkers : CallPredictBatch(mw)
    \/ \E cols \in FileColumns, col \in ColumnNames : CallProcessFile(cols, col)
    \/ \E i \in Positions : Submit(i)
    \/ EndSubmit
    \/ \E i \in Positions : WorkerStart(i)
    \/ \E i \in Positions, e \in Envs : WorkerFinish(i, e)
    \/ \E i \in Positions : Collect(i)
    \/ ReturnBatch
    \/ Flatten

Spec == Init /\ [][Next]_vars

(* The outcomes drawn when progress is checked: scheduling does not depend *)
(* on what a call returns, so one outcome of each kind is enough (a        *)
(* well-formed answer, a malformed one, a failed call, a worker fault).    *)
LiveEnvs ==
    { [step |-> "ok", resp |-> [kind |-> "list", items |-> <<EColi>>], fault |-> FALSE],
      [step |-> "ok", resp |-> [kind |-> "list", items |-> <<EColi, NoWord>>], fault |-> FALSE],
      [step |-> "invoke", resp |-> EmptyList, fault |-> FALSE],
      [step |-> "ok", resp |-> EmptyList, fault |-> TRUE] }

LiveNext ==
    \/ \E mw \in 1 .. MaxWorkers : CallPredictBatch(mw)
    \/ \E cols \in FileColumns, col \in ColumnNames : CallProcessFile(cols, col)
    \/ \E i \in Positions : Submit(i)
    \/ EndSubmit
    \/ \E i \in Positions : WorkerStart(i)
    \/ \E i \in Positions, e \in LiveEnvs : WorkerFinish(i, e)
    \/ \E i \in Positions : Collect(i)
    \/ ReturnBatch
    \/ Flatten

(* Fair scheduling: the calling thread and the pool threads keep running,  *)
(* and every inference call eventually returns or raises, so a step that   *)
(* can be taken is eventually taken.                                        *)
FairSpec == Init /\ [][LiveNext]_vars /\ WF_vars(LiveNext)

TypeOK ==
    /\ pc \in {"idle", "submit", "collect", "flatten", "returned", "raised"}
    /\ caller \in {"none", "batch", "file"}
    /\ \A i \in Positions : wstate[i] \in {"new", "queued", "running", "done"}

-----------------------------------------------------------------------------
(* Properties *)

(* predict_batch has returned its list (to the caller or to process_file). *)
BatchDone ==
    \/ pc \in {"flatten", "returned"}
    \/ pc = "raised" /\ error.type # "ValueError"

N == Len(texts)

(* C1: predict_batch returns exactly N results, and the i-th one has       *)
(* index i, for every N (0 included), every max_workers and every          *)
(* completion order.                                                        *)
C1_LengthAndOrder ==
    BatchDone =>
        /\ Len(results) = N
        /\ \A i \in Positions : results[i + 1].index = i

(* Two items were collected in the reverse of their input order, by a pool *)
(* of two workers, and the list has been returned.                          *)
C1_Witness ==
    /\ pc = "returned"
    /\ caller = "batch"
    /\ max_workers = 2
    /\ order = <<1, 0>>
    /\ Len(results) = 2

(* C2: the i-th result carries the i-th text and the outcome of the worker *)
(* submitted for position i, also when a text occurs at several positions. *)
C2_IndexToTextMapping ==
    BatchDone =>
        \A i \in Positions :
            /\ results[i + 1].text = texts[i + 1]
            /\ results[i + 1].status = Success => results[i + 1].entities = future[i].value
            /\ results[i + 1].status = Success <=> (~future[i].raised /\ HasLen(future[i].value))
            /\ results[i + 1].status # Success => results[i + 1].entities = EmptyList

(* The same text at both positions, different outcomes, collected in       *)
(* reverse order.                                                           *)
C2_Witness ==
    /\ pc = "returned"
    /\ texts = <<"x", "x">>
    /\ order = <<1, 0>>
    /\ ~future[0].raised /\ ~future[1].raised
    /\ PyLen(future[0].value) = 1
    /\ PyLen(future[1].value) = 3
    /\ results[1].species_count = 1
    /\ results[2].species_count = 3

(* The positions whose worker faulted: the future raises when its result   *)
(* is taken, predict_single's own catch being bypassed.                     *)
Faulted == {i \in Positions : wstate[i] = "done" /\ env[i].fault}

ErrorPositions == {i \in Positions : IsErrorStatus(results[i + 1].status)}

(* C3 as stated: with a fault injected for one item, exactly that item's   *)
(* result has an error status, empty entities and species_count 0.         *)
C3_ExactlyTheFaultedItem ==
    (BatchDone /\ Cardinality(Faulted) = 1) =>
        /\ ErrorPositions = Faulted
        /\ \A i \in Faulted :
               /\ results[i + 1].entities = EmptyList
               /\ results[i + 1].species_count = 0

(* The result of position i in a run in which its worker does not fault:   *)
(* it depends on the item's own text and response only.                     *)
UnfaultedResult(i) ==
    IF env[i].step # "ok" THEN
        [index |-> i, text |-> texts[i + 1], entities |-> EmptyList,
         species_count |-> 0, status |-> Success]
    ELSE IF env[i].resp.kind \in {"list", "dict"} THEN
        [index |-> i, text |-> texts[i + 1], entities |-> env[i].resp,
         species_count |-> Len(env[i].resp.items), status |-> Success]
    ELSE
        [index |-> i, text |-> texts[i + 1], entities |-> EmptyList,
         species_count |-> 0,
         status |-> <<"error: ", "object of type 'int' has no len()">>]

(* C3 (amended): the faulted item's result has an error status, empty      *)
(* entities and species_count 0; every other item's result is what it is   *)
(* in a run without the fault (an error status there too when its decoded  *)
(* response has no length); predict_batch does not raise.                   *)
C3_FaultIsolated ==
    BatchDone =>
        /\ \A i \in Faulted :
               /\ IsErrorStatus(results[i + 1].status)
               /\ results[i + 1].entities = EmptyList
               /\ results[i + 1].species_count = 0
        /\ \A i \in Positions \ Faulted : results[i + 1] = UnfaultedResult(i)
        /\ caller = "batch" => error = NoError

(* One of two items faulted, the other returned one entity. *)
C3_Witness ==
    /\ pc = "returned"
    /\ caller = "batch"
    /\ N = 2
    /\ Faulted = {0}
    /\ results[1].status = <<"error: ", "worker fault">>
    /\ results[2].status = Success
    /\ results[2].species_count = 1

AllFailed ==
    \A i \in Positions : env[i].step \in {"dumps", "invoke", "read", "decode"} /\ ~env[i].fault

(* C4: when every predict_single call fails inside its try block, every    *)
(* result has status success, an empty entity list and species_count 0.    *)
C4_AlwaysFailingPredictor ==
    (BatchDone /\ AllFailed) =>
        \A i \in Positions :
            /\ results[i + 1].status = Success
            /\ results[i + 1].entities = EmptyList
            /\ results[i + 1].species_count = 0

(* Two items whose calls failed at different steps, batch returned. *)
C4_Witness ==
    /\ pc = "returned"
    /\ N = 2
    /\ AllFailed
    /\ env[0].step = "invoke"
    /\ env[1].step = "decode"
    /\ Len(results) = 2

(* C5: predict_single never raises: a failure of dumps, invoke_endpoint,   *)
(* read or decode gives the empty list, and otherwise the decoded value is *)
(* returned unchanged.                                                      *)
C5_PredictSingleSwallows ==
    \A i \in Positions :
        (wstate[i] = "done" /\ ~env[i].fault) =>
            /\ ~future[i].raised
            /\ env[i].step # "ok" => future[i].value = EmptyList
            /\ env[i].step = "ok" => future[i].value = env[i].resp

(* One worker's call failed while reading and another got a JSON object    *)
(* back, which is returned as it is.                                        *)
C5_Witness ==
    /\ N = 2
    /\ wstate[0] = "done" /\ env[0].step = "read" /\ ~env[0].fault
    /\ wstate[1] = "done" /\ env[1].step = "ok" /\ env[1].resp.kind = "dict"
    /\ future[1].value.kind = "dict"

NoSideEffects ==
    /\ \A i \in Positions : wstate[i] = "new" /\ calls[i] = 0
    /\ results = <<>>
    /\ collected = {}
    /\ table = <<>>

(* C6: process_file on a file without the text column raises the error     *)
(* naming that column; nothing is submitted, no request is sent and no     *)
(* table is produced.                                                       *)
C6_MissingColumn ==
    (caller = "file" /\ text_column \notin columns) =>
        /\ pc = "raised"
        /\ error = [type |-> "ValueError", arg |-> text_column]
        /\ NoSideEffects

(* A non-empty file without the "text" column was processed. *)
C6_Witness ==
    /\ caller = "file"
    /\ columns = {"id", "notes"}
    /\ text_column = "text"
    /\ N = 2
    /\ pc = "raised"

FileReturned == pc = "returned" /\ caller = "file"

RowsOf(r) ==
    {k \in 1 .. Len(table) :
        table[k].original_index = r.index /\ table[k].original_text = r.text}

RECURSIVE SumCounts(_)
SumCounts(rs) ==
    IF rs = <<>> THEN 0 ELSE Head(rs).species_count + SumCounts(Tail(rs))

(* C7: the table has exactly k rows for a result with k entities, carrying *)
(* its index and text, and as many rows in all as there are entities.      *)
C7_OneRowPerEntity ==
    FileReturned =>
        /\ \A k \in 1 .. Len(results) :
               Cardinality(RowsOf(results[k])) = Len(results[k].entities.items)
        /\ Len(table) = SumCounts(results)

(* A result with three entities and one with none: three rows, all for the *)
(* first text.                                                              *)
C7_Witness ==
    /\ FileReturned
    /\ N = 2
    /\ Len(results[1].entities.items) = 3
    /\ Len(results[2].entities.items) = 0
    /\ Len(table) = 3
    /\ \A k \in 1 .. 3 : table[k].original_index = 0

OneEColi == [kind |-> "list", items |-> <<EColi>>]

ScenarioXY ==
    /\ texts = <<"x", "y">>
    /\ env[0] = [step |-> "ok", resp |-> OneEColi, fault |-> FALSE]
    /\ env[1] = [step |-> "ok", resp |-> EmptyList, fault |-> FALSE]

(* C8: species_count is the number of elements of entities in every        *)
(* result, and 0 in every error result; with one entity for "x" and none   *)
(* for "y" the counts are 1 and 0 and the table has one row, for "x".      *)
C8_SpeciesCount ==
    /\ BatchDone =>
           \A k \in 1 .. Len(results) :
               /\ results[k].species_count = Len(results[k].entities.items)
               /\ IsErrorStatus(results[k].status) => results[k].species_count = 0
    /\ (BatchDone /\ ScenarioXY) =>
           /\ results[1].species_count = 1
           /\ results[2].species_count = 0
    /\ (FileReturned /\ ScenarioXY) =>
           /\ Len(table) = 1
           /\ table[1].original_text = "x"
           /\ table[1].species = "E. coli"

(* The scenario of the two texts "x" and "y", processed from a file. *)
C8_Witness ==
    /\ FileReturned
    /\ ScenarioXY
    /\ Len(table) = 1

(* C9 as stated: predict_batch and process_file raise only for a missing   *)
(* text column, whatever the inference responses are.                       *)
C9_OnlyMissingColumnRaises ==
    pc = "raised" => error = [type |-> "ValueError", arg |-> text_column]

(* C10 as stated: whenever predict_single returned normally, whatever the  *)
(* value, the result built has status success, the value as entities and   *)
(* its count as species_count.                                              *)
C10_SuccessForAnyValue ==
    \A k \in 1 .. Len(results) :
        LET r == results[k] IN
        ~future[r.index].raised =>
            /\ r.status = Success
            /\ r.entities = future[r.index].value
            /\ r.species_count = Len(future[r.index].value.items)

(* C10 (amended): when predict_single returned a value that has a length   *)
(* (a JSON array or object), the result has status success, that value as  *)
(* entities and its length as species_count; an error status is produced   *)
(* only when the worker raised or the value returned has no length.         *)
C10_SuccessForSizedValue ==
    \A k \in 1 .. Len(results) :
        LET r == results[k]
            fut == future[r.index]
        IN  /\ (~fut.raised /\ fut.value.kind \in {"list", "dict"}) =>
                   /\ r.status = Success
                   /\ r.entities = fut.value
                   /\ r.species_count = Len(fut.value.items)
            /\ IsErrorStatus(r.status) =>
                   (fut.raised \/ fut.value.kind \notin {"list", "dict"})

(* Results were built for a call that failed (empty list) and for a call   *)
(* that returned a JSON object.                                             *)
C10_Witness ==
    /\ Len(results) = 2
    /\ \E k \in 1 .. 2 :
           /\ env[results[k].index].step = "invoke"
           /\ ~env[results[k].index].fault
           /\ results[k].status = Success
    /\ \E k \in 1 .. 2 :
           /\ ~future[results[k].index].raised
           /\ future[results[k].index].value.kind = "dict"
           /\ results[k].species_count = 1

(* C11 as stated: the table returned by process_file always has the seven  *)
(* columns original_index, original_text, species, confidence,             *)
(* start_position, end_position and status, also for a file with zero rows *)
(* and for a batch in which no text yields an entity.                       *)
C11_TableColumns ==
    FileReturned => DataFrameColumns(table) = OutputColumns

(* The list a sequential run builds: position after position in input      *)
(* order, each from its own text and its own outcome.                       *)
SequentialResults ==
    [k \in 1 .. N |-> CollectOutcome(k - 1, texts[k], FutureOf(env[k - 1]))]

(* C12: the list returned by predict_batch is a function of the texts and  *)
(* the per-position outcomes alone, the one a sequential run in input      *)
(* order produces, whatever the completion order and max_workers are.      *)
C12_OrderIndependent ==
    BatchDone => results = SequentialResults

(* Two workers ran side by side, the second position was collected first,  *)
(* and the two positions had different outcomes.                            *)
C12_Witness ==
    /\ pc = "returned"
    /\ caller = "batch"
    /\ max_workers = 2
    /\ order = <<1, 0>>
    /\ env[0].step = "ok" /\ env[0].resp.kind = "int"
    /\ env[1].step = "ok" /\ PyLen(env[1].resp) = 3
    /\ results[2].species_count = 3

(* C13: at most max_workers predict_single calls are in flight at any      *)
(* time, although all items are submitted up front; process_file passes no *)
(* max_workers, so its pool has the default size 5.                         *)
C13_InFlightBounded ==
    /\ Cardinality(Running) <= max_workers
    /\ caller = "file" => max_workers = DefaultMaxWorkers

(* Both items are submitted to a pool of one worker: one call is in        *)
(* flight and the other item waits in the queue.                            *)
C13_Witness ==
    /\ caller = "batch"
    /\ max_workers = 1
    /\ pc = "collect"
    /\ N = 2
    /\ wstate[0] = "running"
    /\ wstate[1] = "queued"

(* C14 as stated: exactly one external inference call is made for each     *)
(* position during one predict_batch call, whether calls succeed or fail.  *)
C14_ExactlyOneCall ==
    BatchDone => \A i \in Positions : calls[i] = 1

(* C14 (amended): no position gets more than one call, no call is made     *)
(* before the position's worker has run, and when predict_batch returns    *)
(* every position has had exactly one call, except a position whose        *)
(* request could not be serialised, which has had none.                     *)
C14_AtMostOneCall ==
    /\ \A i \in Positions :
           /\ calls[i] <= 1
           /\ wstate[i] # "done" => calls[i] = 0
    /\ BatchDone =>
           \A i \in Positions :
               /\ env[i].step # "dumps" => calls[i] = 1
               /\ env[i].step = "dumps" => calls[i] = 0

(* One position's call failed at the endpoint, the sibling's request could *)
(* not be serialised; the batch has returned.                               *)
C14_Witness ==
    /\ pc = "returned"
    /\ N = 2
    /\ env[0].step = "invoke" /\ calls[0] = 1
    /\ env[1].step = "dumps" /\ calls[1] = 0

(* C15: predict_batch returns only when every item has completed and its   *)
(* result has been collected; a result for position i is appended only     *)
(* after the worker of position i has finished, and only once.              *)
C15_ReturnAfterAllCollected ==
    /\ BatchDone =>
           \A i \in Positions : wstate[i] = "done" /\ i \in collected
    /\ \A k \in 1 .. Len(results) :
           /\ results[k].index \in collected
           /\ wstate[results[k].index] = "done"
    /\ \A k, m \in 1 .. Len(results) :
           results[k].index = results[m].index => k = m
    /\ Len(results) = Cardinality(collected)

(* The result of the second position has been collected while the worker   *)
(* of the first is still running: the call has not returned.                *)
C15_Witness ==
    /\ pc = "collect"
    /\ N = 2
    /\ wstate[0] = "running"
    /\ wstate[1] = "done"
    /\ Len(results) = 1
    /\ results[1].index = 1

(* C16: under fair scheduling, once predict_batch has been entered every   *)
(* submitted item eventually runs to completion or failure and             *)
(* predict_batch eventually returns, also when max_workers < N.             *)
C16_EventuallyReturns ==
    /\ (pc = "submit") ~> BatchDone
    /\ \A i \in 0 .. (MaxN - 1) :
           (pc = "submit" /\ i \in Positions) ~> (i \in Positions /\ wstate[i] = "done")

(* A batch of two items on a pool of one worker has returned, both items   *)
(* having run.                                                              *)
C16_Witness ==
    /\ pc = "returned"
    /\ caller = "batch"
    /\ max_workers = 1
    /\ N = 2
    /\ \A i \in Positions : wstate[i] = "done" /\ env[i].step # "none"

Elements(s) == {s[k] : k \in 1 .. Len(s)}

(* C17: only the calling thread writes the results list, one append per    *)
(* finished future not yet collected and one sort at the end that keeps    *)
(* every element; a worker step changes nothing but its own position's     *)
(* state, so no interleaving loses, duplicates or alters a result.         *)
C17_OnlyCollectorWrites ==
    [][ /\ results' # results =>
               /\ pc = "collect"
               /\ wstate' = wstate
               /\ future' = future
        /\ (results' # results /\ pc' = "collect") =>
               \E i \in Positions \ collected :
                   /\ wstate[i] = "done"
                   /\ collected' = collected \cup {i}
                   /\ Len(results') = Len(results) + 1
                   /\ SubSeq(results', 1, Len(results)) = results
                   /\ results'[Len(results')].index = i
        /\ (results' # results /\ pc' # "collect") =>
               /\ Len(results') = Len(results)
               /\ Elements(results') = Elements(results)
        /\ \A i \in Positions :
               wstate'[i] = wstate[i] =>
                   /\ future'[i] = future[i]
                   /\ env'[i] = env[i]
                   /\ calls'[i] = calls[i]
      ]_vars

(* Both workers of a pool of two have finished; one result has been        *)
(* collected and the other completion is still waiting.                     *)
C17_Witness ==
    /\ pc = "collect"
    /\ max_workers = 2
    /\ N = 2
    /\ wstate[0] = "done"
    /\ wstate[1] = "done"
    /\ collected = {1}
    /\ Len(results) = 1

(* C18: every row of the table returned by process_file has status         *)
(* success; an error result has no entities and so no row, exactly like a  *)
(* text for which nothing was detected.                                     *)
C18_RowsAreSuccess ==
    FileReturned =>
        /\ \A k \in 1 .. Len(table) : table[k].status = Success
        /\ \A k \in 1 .. Len(results) :
               (IsErrorStatus(results[k].status) \/ results[k].species_count = 0)
                   => RowsOf(results[k]) = {}

(* A file of two different texts: the worker of the first faulted, the     *)
(* second got one entity; the table has the one row of the second.          *)
C18_Witness ==
    /\ FileReturned
    /\ texts = <<"x", "y">>
    /\ IsErrorStatus(results[1].status)
    /\ results[2].status = Success
    /\ Len(table) = 1
    /\ table[1].original_index = 1

RECURSIVE RowsWithIndex(_, _)
RowsWithIndex(rows, i) ==
    IF rows = <<>> THEN <<>>
    ELSE IF Head(rows).original_index = i
         THEN <<Head(rows)>> \o RowsWithIndex(Tail(rows), i)
         ELSE RowsWithIndex(Tail(rows), i)

(* C19: the rows of the table are in non-decreasing original_index order,  *)
(* and the rows of one index follow the order in which the entities were   *)
(* returned for that text, whatever the completion order was.               *)
C19_RowOrder ==
    FileReturned =>
        /\ \A k \in 1 .. (Len(table) - 1) :
               table[k].original_index <= table[k + 1].original_index
        /\ \A i \in Positions :
               LET rows == RowsWithIndex(table, i)
                   returned == future[i].value.items
               IN  IF IsErrorStatus(results[i + 1].status) THEN rows = <<>>
                   ELSE /\ Len(rows) = Len(returned)
                        /\ \A k \in 1 .. Len(rows) :
                               /\ rows[k].species = returned[k].obj.word
                               /\ rows[k].confidence = returned[k].obj.score
                               /\ rows[k].start_position = returned[k].obj.start
                               /\ rows[k].end_position = returned[k].obj.end

(* The second text was collected first; the table has the three rows of    *)
(* the first text in the order returned, then the row of the second.       *)
C19_Witness ==
    /\ FileReturned
    /\ order = <<1, 0>>
    /\ Len(table) = 4
    /\ table[1].species = "MRSA" /\ table[1].original_index = 0
    /\ table[2].species = "E. coli" /\ table[2].original_index = 0
    /\ table[3].species = "MRSA" /\ table[3].original_index = 0
    /\ table[4].original_index = 1

====
